---- MODULE Spec2Model ----
(***************************************************************************)
(* A model of stingy (src/stingy.py): a schema of bit-packed fields, the   *)
(* ctypes structure/union the engine builds from it, and the encode and    *)
(* decode calls made on one engine instance.                               *)
(*                                                                         *)
(* Python values are tagged records (IntV, BoolV, StrV, SetV, DateV,       *)
(* ListV, NoneV); a Python str value is a sequence of one-character        *)
(* strings, so that hex parsing and str() are computed, not assumed.       *)
(* The union's buffer is a sequence of bytes; a bit index counts from the  *)
(* most significant bit of the first byte (ctypes.BigEndianStructure).     *)
(***************************************************************************)
EXTENDS Integers, Sequences, FiniteSets, TLC

\* The number of encode/decode calls made on the engine instance.
MaxCalls == 2

\* ctypes.c_uint is 4 bytes: the storage unit of every bit field.
UintBits == 32
\* The bit widths DateField.prepare_structure gives month and day.
MonthBits == 4
DayBits == 5
\* The year DateField.pack subtracts and DateField.unpack adds.
EpochYear == 2000

(***************************************************************************)
(* Python values and the built-ins the code applies to them.               *)
(***************************************************************************)
IntV(n) == [t |-> "int", n |-> n]
BoolV(b) == [t |-> "bool", b |-> b]
StrV(cs) == [t |-> "str", cs |-> cs]
SetV(e) == [t |-> "set", e |-> e]
DateV(y, m, d) == [t |-> "date", y |-> y, m |-> m, d |-> d]
ListV(l) == [t |-> "list", l |-> l]
NoneV == [t |-> "none"]

\* int.bit_length(): the bits of abs(n); 0 for 0.
RECURSIVE BitLength(_)
BitLength(n) ==
    IF n < 0 THEN BitLength(-n)
    ELSE IF n = 0 THEN 0 ELSE 1 + BitLength(n \div 2)

Digits == <<"0", "1", "2", "3", "4", "5", "6", "7", "8", "9">>

\* str(n) of an int.
RECURSIVE DecStr(_)
DecStr(n) ==
    IF n < 0 THEN "-" \o DecStr(-n)
    ELSE IF n < 10 THEN Digits[n + 1]
    ELSE DecStr(n \div 10) \o Digits[(n % 10) + 1]

\* n as at least two decimal digits (the %02d of date.__str__).
Pad2(n) == IF n < 10 THEN "0" \o DecStr(n) ELSE DecStr(n)

\* The characters of a Python str joined into its text.
RECURSIVE Join(_)
Join(cs) == IF cs = <<>> THEN "" ELSE Head(cs) \o Join(Tail(cs))

\* The order in which a Python 2 set of these labels iterates (hash order).
HashOrder == <<<<"p">>, <<"q">>, <<"r">>, <<"s">>>>

\* repr() of an element of a list or a set.
ReprElem(v) ==
    CASE v.t = "int" -> DecStr(v.n)
      [] v.t = "str" -> "'" \o Join(v.cs) \o "'"
      [] OTHER -> "?"

RECURSIVE ReprSetFrom(_, _, _)
ReprSetFrom(e, i, first) ==
    IF i > Len(HashOrder) THEN ""
    ELSE IF HashOrder[i] \in e
         THEN (IF first THEN "" ELSE ", ") \o "'" \o Join(HashOrder[i]) \o "'"
              \o ReprSetFrom(e, i + 1, FALSE)
         ELSE ReprSetFrom(e, i + 1, first)

RECURSIVE ReprListFrom(_, _)
ReprListFrom(l, i) ==
    IF i > Len(l) THEN ""
    ELSE (IF i = 1 THEN "" ELSE ", ") \o ReprElem(l[i]) \o ReprListFrom(l, i + 1)

\* Python 2 str(value), as Stingy.encode uses it to build the cache key.
Str(v) ==
    CASE v.t = "int" -> DecStr(v.n)
      [] v.t = "bool" -> IF v.b THEN "True" ELSE "False"
      [] v.t = "str" -> Join(v.cs)
      [] v.t = "none" -> "None"
      [] v.t = "set" -> "set([" \o ReprSetFrom(v.e, 1, TRUE) \o "])"
      [] v.t = "date" -> DecStr(v.y) \o "-" \o Pad2(v.m) \o "-" \o Pad2(v.d)
      [] v.t = "list" -> "[" \o ReprListFrom(v.l, 1) \o "]"

\* The value of a hex digit, or -1 for a character bytearray.fromhex rejects.
HexVal(c) ==
    CASE c = "0" -> 0 [] c = "1" -> 1 [] c = "2" -> 2 [] c = "3" -> 3
      [] c = "4" -> 4 [] c = "5" -> 5 [] c = "6" -> 6 [] c = "7" -> 7
      [] c = "8" -> 8 [] c = "9" -> 9
      [] c \in {"a", "A"} -> 10 [] c \in {"b", "B"} -> 11
      [] c \in {"c", "C"} -> 12 [] c \in {"d", "D"} -> 13
      [] c \in {"e", "E"} -> 14 [] c \in {"f", "F"} -> 15
      [] OTHER -> -1

HexChars == <<"0", "1", "2", "3", "4", "5", "6", "7", "8", "9",
              "a", "b", "c", "d", "e", "f">>

\* bytearray.fromhex(cs) as the big-endian number of its bytes.
RECURSIVE FromHex(_)
FromHex(cs) ==
    IF cs = <<>> THEN 0 ELSE FromHex(SubSeq(cs, 1, Len(cs) - 1)) * 16 + HexVal(cs[Len(cs)])

\* binascii.hexlify of num_bytes bytes whose big-endian number is n.
RECURSIVE Hexlify(_, _)
Hexlify(n, num_bytes) ==
    IF num_bytes = 0 THEN <<>>
    ELSE Hexlify(n \div 256, num_bytes - 1)
         \o <<HexChars[((n \div 16) % 16) + 1], HexChars[(n % 16) + 1]>>

\* Whether datetime.date(y, m, d) is a calendar date (else ValueError).
IsLeap(y) == (y % 4 = 0 /\ y % 100 # 0) \/ y % 400 = 0
DaysInMonth(y, m) ==
    IF m = 2 THEN (IF IsLeap(y) THEN 29 ELSE 28)
    ELSE IF m \in {4, 6, 9, 11} THEN 30 ELSE 31
ValidDate(y, m, d) ==
    /\ y \in 1..9999
    /\ m \in 1..12
    /\ d \in 1..DaysInMonth(y, m)

\* list.index(value), 1-based; 0 when absent (ValueError).
RECURSIVE IndexOf(_, _, _)
IndexOf(choices, cs, i) ==
    IF i > Len(choices) THEN 0
    ELSE IF choices[i] = cs THEN i ELSE IndexOf(choices, cs, i + 1)

(***************************************************************************)
(* The field classes: construction (__init__) and prepare_structure.       *)
(* A field class with its keyword arguments is a record [class, ...]; a    *)
(* constructed field carries the order the construction counter gave it.   *)
(***************************************************************************)
\* BaseStingyField.prefix
Prefix(name, text) == name \o "_" \o text

\* NumberField.__init__
NumberField(order, max_value) ==
    [kind |-> "NumberField", name |-> "", order |-> order,
     structure_fields |-> <<>>, num_bits |-> BitLength(max_value)]

\* BooleanField.__init__
BooleanField(order) ==
    [kind |-> "BooleanField", name |-> "", order |-> order,
     structure_fields |-> <<>>, num_bits |-> 1]

\* HexField.__init__ (Python 2: length / 2 is the integer quotient)
HexField(order, length) ==
    [kind |-> "HexField", name |-> "", order |-> order,
     structure_fields |-> <<>>, num_bytes |-> length \div 2]

\* ChoiceField.__init__
ChoiceField(order, choices) ==
    [kind |-> "ChoiceField", name |-> "", order |-> order,
     structure_fields |-> <<>>, choices |-> choices,
     num_bits |-> BitLength(Len(choices))]

\* DateField.__init__
DateField(order, min_year, max_year) ==
    [kind |-> "DateField", name |-> "", order |-> order,
     structure_fields |-> <<>>, year_bits |-> BitLength(max_year - min_year)]

\* ListField.__init__
ListField(order, field, length, kwargs) ==
    [kind |-> "ListField", name |-> "", order |-> order,
     structure_fields |-> <<>>, field_class |-> field, length |-> length,
     fields |-> <<>>, field_kwargs |-> kwargs]

\* MultipleChoiceField.__init__
MultipleChoiceField(order, choices) ==
    [kind |-> "MultipleChoiceField", name |-> "", order |-> order,
     structure_fields |-> <<>>, choices |-> choices, choice_mapping |-> <<>>]

\* field_class(**kwargs), the counter being `order` at the call.
Construct(class, kw, order) ==
    CASE class = "NumberField" -> NumberField(order, kw.max_value)
      [] class = "BooleanField" -> BooleanField(order)
      [] class = "HexField" -> HexField(order, kw.length)
      [] class = "ChoiceField" -> ChoiceField(order, kw.choices)
      [] class = "DateField" -> DateField(order, kw.min_year, kw.max_year)
      [] class = "ListField" -> ListField(order, kw.field, kw.length, kw.kwargs)
      [] class = "MultipleChoiceField" -> MultipleChoiceField(order, kw.choices)

\* One entry of _fields_: a bit field of a ctypes integer type, or an array.
BitField(key, ctype, bits) == [key |-> key, ctype |-> ctype, bits |-> bits, array |-> FALSE]
ByteArray(key, num_bytes) == [key |-> key, ctype |-> "c_ubyte", bits |-> 8 * num_bytes, array |-> TRUE]

\* prepare_structure of the classes that construct no further fields.
PrepareLeaf(f) ==
    CASE f.kind = "NumberField" ->
           [f EXCEPT !.structure_fields =
              <<BitField(Prefix(f.name, "num"),
                         IF f.num_bits <= 32 THEN "c_uint" ELSE "c_ulonglong",
                         f.num_bits)>>]
      [] f.kind = "BooleanField" ->
           [f EXCEPT !.structure_fields =
              <<BitField(Prefix(f.name, "bool"), "c_uint", f.num_bits)>>]
      [] f.kind = "HexField" ->
           [f EXCEPT !.structure_fields =
              <<ByteArray(Prefix(f.name, "hex"), f.num_bytes)>>]
      [] f.kind = "ChoiceField" ->
           [f EXCEPT !.structure_fields =
              <<BitField(Prefix(f.name, "cho"), "c_uint", f.num_bits)>>]
      [] f.kind = "DateField" ->
           [f EXCEPT !.structure_fields =
              <<BitField(Prefix(f.name, "year"), "c_uint", f.year_bits),
                BitField(Prefix(f.name, "month"), "c_uint", MonthBits),
                BitField(Prefix(f.name, "day"), "c_uint", DayBits)>>]
      [] f.kind = "MultipleChoiceField" ->
           [f EXCEPT
              !.structure_fields =
                 [i \in 1..Len(f.choices) |->
                    BitField(Prefix(f.name, "mcho" \o DecStr(i - 1)), "c_uint", 1)],
              !.choice_mapping =
                 [i \in 1..Len(f.choices) |->
                    Prefix(f.name, "mcho" \o DecStr(i - 1))]]

\* The concatenation of the structure_fields of a sequence of fields.
RECURSIVE ChainStructure(_)
ChainStructure(fs) ==
    IF fs = <<>> THEN <<>>
    ELSE Head(fs).structure_fields \o ChainStructure(Tail(fs))

\* ListField.prepare_structure: the size prefix, then `length` element
\* fields constructed now (each takes the next value of the counter).
\* The result is the prepared field and the counter afterwards.
PrepareList(f, counter) ==
    LET elems == [i \in 1..f.length |->
                    PrepareLeaf([Construct(f.field_class, f.field_kwargs, counter + i - 1)
                                   EXCEPT !.name = Prefix(f.name, DecStr(i - 1))])]
    IN [field |-> [f EXCEPT
                     !.fields = elems,
                     !.structure_fields =
                        <<BitField(Prefix(f.name, "size"), "c_uint", BitLength(f.length))>>
                        \o ChainStructure(elems)],
        counter |-> counter + f.length]

PrepareStructure(f, counter) ==
    IF f.kind = "ListField" THEN PrepareList(f, counter)
    ELSE [field |-> PrepareLeaf(f), counter |-> counter]

(***************************************************************************)
(* StingyMeta: the class body constructs the fields in declaration order;  *)
(* set_fields walks the attribute dict in its own iteration order, naming  *)
(* and preparing each field; sort_fields sorts by the construction order.  *)
(***************************************************************************)
\* The fields the class body constructs: attrs[i] is [name, class, kw].
ClassBody(attrs) ==
    [i \in 1..Len(attrs) |->
       [name |-> attrs[i].name, field |-> Construct(attrs[i].class, attrs[i].kw, i - 1)]]

\* StingyMeta.set_fields over the dict items in iteration order `iter`.
RECURSIVE SetFields(_, _, _, _)
SetFields(items, iter, i, counter) ==
    IF i > Len(iter) THEN <<>>
    ELSE LET it == items[iter[i]]
             p == PrepareStructure([it.field EXCEPT !.name = it.name], counter)
         IN <<p.field>> \o SetFields(items, iter, i + 1, p.counter)

\* klass.fields left in the dict's iteration order.
SortFieldsNone(fs) == fs

\* sorted(fields, key=order): insertion of each field after those not larger.
RECURSIVE SortFields(_)
SortFields(fs) ==
    IF fs = <<>> THEN <<>>
    ELSE LET rest == SortFields(SubSeq(fs, 1, Len(fs) - 1))
             x == fs[Len(fs)]
             k == Cardinality({j \in 1..Len(rest) : rest[j].order <= x.order})
         IN SubSeq(rest, 1, k) \o <<x>> \o SubSeq(rest, k + 1, Len(rest))

\* StingyMeta.__new__
MetaNew(attrs, iter) ==
    SortFields(SetFields(ClassBody(attrs), iter, 1, Len(attrs)))

(***************************************************************************)
(* The ctypes structure: BigEndianStructure, _pack_ = 1.  Bit fields of    *)
(* c_uint share a 4-byte storage unit while they fit; a bit field that     *)
(* does not fit, or that follows an array, opens a new unit; an array      *)
(* starts at the next byte after the open unit.  The first bit field of a  *)
(* unit takes its most significant bits.                                   *)
(***************************************************************************)
CtypeBits(ctype) ==
    CASE ctype = "c_uint" -> UintBits
      [] ctype = "c_ulonglong" -> 2 * UintBits
      [] ctype = "c_ubyte" -> 8

\* The members of _fields_ from entry i on, as a function from the member's
\* key to its [pos, bits]: `offset` is the structure's size so far in bytes,
\* `bitofs` the bits used of the open storage unit, `field_size` its width
\* (0: no unit is open).
RECURSIVE StructLayout(_, _, _, _, _)
StructLayout(sfs, i, offset, bitofs, field_size) ==
    IF i > Len(sfs) THEN [slots |-> <<>>, size |-> offset]
    ELSE LET sf == sfs[i] IN
         IF sf.array
         THEN LET rest == StructLayout(sfs, i + 1, offset + sf.bits \div 8, 0, 0)
              IN [slots |-> (sf.key :> [pos |-> 8 * offset, bits |-> sf.bits])
                            @@ rest.slots,
                  size |-> rest.size]
         ELSE IF field_size # 0 /\ CtypeBits(sf.ctype) <= field_size
                 /\ bitofs + sf.bits <= field_size
         THEN LET rest == StructLayout(sfs, i + 1, offset, bitofs + sf.bits, field_size)
              IN [slots |-> (sf.key :> [pos |-> 8 * offset - field_size + bitofs,
                                        bits |-> sf.bits]) @@ rest.slots,
                  size |-> rest.size]
         ELSE LET unit == CtypeBits(sf.ctype)
                  rest == StructLayout(sfs, i + 1, offset + unit \div 8, sf.bits, unit)
              IN [slots |-> (sf.key :> [pos |-> 8 * offset, bits |-> sf.bits])
                            @@ rest.slots,
                  size |-> rest.size]

\* StingyStructure of Stingy._create_union, for the class's sorted fields.
StingyStructure(fs) == StructLayout(ChainStructure(fs), 1, 0, 0, 0)

\* ctypes.sizeof(StingyStructure): self._num_bytes
NumBytes(st) == st.size

(***************************************************************************)
(* The union's bytes: getattr and setattr of a structure member.           *)
(***************************************************************************)
\* Bit i (0-based, most significant first) of the byte sequence.
Bit(buf, i) == (buf[(i \div 8) + 1] \div 2^(7 - (i % 8))) % 2

\* getattr(sub_fields, key): the unsigned number in the member's bits.
RECURSIVE GetBits(_, _, _)
GetBits(buf, pos, bits) ==
    IF bits = 0 THEN 0
    ELSE 2 * GetBits(buf, pos, bits - 1) + Bit(buf, pos + bits - 1)

\* Byte j of the bytes after bits [pos, pos + bits) are given the number v.
ByteWith(buf, pos, bits, v, j) ==
    LET NewBit(i) == IF pos <= i /\ i < pos + bits
                     THEN (v \div 2^(pos + bits - 1 - i)) % 2
                     ELSE Bit(buf, i)
    IN NewBit(8*j - 8) * 128 + NewBit(8*j - 7) * 64 + NewBit(8*j - 6) * 32
       + NewBit(8*j - 5) * 16 + NewBit(8*j - 4) * 8 + NewBit(8*j - 3) * 4
       + NewBit(8*j - 2) * 2 + NewBit(8*j - 1)

RECURSIVE BytesWith(_, _, _, _, _)
BytesWith(buf, pos, bits, v, n) ==
    IF n = 0 THEN <<>>
    ELSE Append(BytesWith(buf, pos, bits, v, n - 1), ByteWith(buf, pos, bits, v, n))

\* setattr(sub_fields, key, value): ctypes stores value modulo 2^bits and
\* leaves every other bit as it is.
SetBits(buf, pos, bits, value) == BytesWith(buf, pos, bits, value % (2^bits), Len(buf))

\* `st` is the structure, `buf` the bytes of the union it overlays.
GetAttr(st, buf, key) == GetBits(buf, st.slots[key].pos, st.slots[key].bits)
SetAttr(st, buf, key, value) == SetBits(buf, st.slots[key].pos, st.slots[key].bits, value)

\* (ctypes.c_ubyte * n)(0)
ZeroBytes(n) == [j \in 1..n |-> 0]

(***************************************************************************)
(* pack and unpack of each field class.  A pack result is                  *)
(* [ok, err, dict]: dict is the sequence of <<member key, value>> pairs of *)
(* the dictionary pack returns, err the exception raised instead.          *)
(***************************************************************************)
Packed(dict) == [ok |-> TRUE, err |-> "", dict |-> dict]
Raised(err) == [ok |-> FALSE, err |-> err, dict |-> <<>>]

\* The items a Python iteration over the value yields (zip, len).
SetItems(e) ==
    LET idx == {i \in 1..Len(HashOrder) : HashOrder[i] \in e}
        Nth(k) == CHOOSE i \in idx : Cardinality({j \in idx : j < i}) = k - 1
    IN [k \in 1..Cardinality(idx) |-> StrV(HashOrder[Nth(k)])]
Items(v) ==
    CASE v.t = "list" -> v.l
      [] v.t = "str" -> [i \in 1..Len(v.cs) |-> StrV(<<v.cs[i]>>)]
      [] v.t = "set" -> SetItems(v.e)

HasLen(v) == v.t \in {"list", "str", "set"}

\* NumberField.pack
NumberPack(f, value) ==
    IF value.t \notin {"int", "bool"} THEN Raised("AttributeError")
    ELSE LET n == IF value.t = "int" THEN value.n ELSE IF value.b THEN 1 ELSE 0
         IN IF BitLength(n) <= f.num_bits
            THEN Packed(<<<<Prefix(f.name, "num"), n>>>>)
            ELSE Raised("AssertionError")

\* BooleanField.pack
BooleanPack(f, value) ==
    IF value.t = "bool"
    THEN Packed(<<<<Prefix(f.name, "bool"), IF value.b THEN 1 ELSE 0>>>>)
    ELSE Raised("AssertionError")

\* HexField.pack
HexPack(f, value) ==
    IF ~HasLen(value) THEN Raised("TypeError")
    ELSE IF Len(Items(value)) # f.num_bytes * 2 THEN Raised("AssertionError")
    ELSE IF value.t # "str" THEN Raised("TypeError")
    ELSE IF \E i \in 1..Len(value.cs) : HexVal(value.cs[i]) < 0 THEN Raised("ValueError")
    ELSE Packed(<<<<Prefix(f.name, "hex"), FromHex(value.cs)>>>>)

\* ChoiceField.pack
ChoicePack(f, value) ==
    IF value.t = "str" /\ IndexOf(f.choices, value.cs, 1) > 0
    THEN Packed(<<<<Prefix(f.name, "cho"), IndexOf(f.choices, value.cs, 1) - 1>>>>)
    ELSE Raised("ValueError")

\* DateField.pack
DatePack(f, value) ==
    IF value.t # "date" THEN Raised("AssertionError")
    ELSE Packed(<<<<Prefix(f.name, "year"), value.y - EpochYear>>,
                  <<Prefix(f.name, "month"), value.m>>,
                  <<Prefix(f.name, "day"), value.d>>>>)

\* MultipleChoiceField.pack
MultipleChoicePack(f, values) ==
    IF values.t # "set" THEN Raised("AssertionError")
    ELSE IF \E c \in values.e : IndexOf(f.choices, c, 1) = 0 THEN Raised("KeyError")
    ELSE LET its == SetItems(values.e)
         IN Packed([k \in 1..Len(its) |->
                      <<f.choice_mapping[IndexOf(f.choices, its[k].cs, 1)], 1>>])

\* pack of the classes that hold no further fields.
PackLeaf(f, value) ==
    CASE f.kind = "NumberField" -> NumberPack(f, value)
      [] f.kind = "BooleanField" -> BooleanPack(f, value)
      [] f.kind = "HexField" -> HexPack(f, value)
      [] f.kind = "ChoiceField" -> ChoicePack(f, value)
      [] f.kind = "DateField" -> DatePack(f, value)
      [] f.kind = "MultipleChoiceField" -> MultipleChoicePack(f, value)

\* The loop of ListField.pack over zip(self.fields, values), from pair i.
RECURSIVE ListPackFrom(_, _, _, _)
ListPackFrom(f, items, i, acc) ==
    IF i > Len(items) \/ i > Len(f.fields) THEN Packed(acc)
    ELSE LET r == PackLeaf(f.fields[i], items[i])
         IN IF r.ok THEN ListPackFrom(f, items, i + 1, acc \o r.dict) ELSE r

\* ListField.pack
ListPack(f, values) ==
    IF ~HasLen(values) THEN Raised("TypeError")
    ELSE ListPackFrom(f, Items(values), 1,
                      <<<<Prefix(f.name, "size"), Len(Items(values))>>>>)

\* field.pack(value)
Pack(f, value) ==
    IF f.kind = "ListField" THEN ListPack(f, value) ELSE PackLeaf(f, value)

\* An unpack result is [ok, err, value].
Unpacked(value) == [ok |-> TRUE, err |-> "", value |-> value]
UnpackRaised(err) == [ok |-> FALSE, err |-> err, value |-> NoneV]

\* NumberField.unpack
NumberUnpack(st, f, buf) == Unpacked(IntV(GetAttr(st, buf, Prefix(f.name, "num"))))

\* BooleanField.unpack
BooleanUnpack(st, f, buf) == Unpacked(BoolV(GetAttr(st, buf, Prefix(f.name, "bool")) # 0))

\* HexField.unpack
HexUnpack(st, f, buf) ==
    Unpacked(StrV(Hexlify(GetAttr(st, buf, Prefix(f.name, "hex")), f.num_bytes)))

\* ChoiceField.unpack with the index clamped to the last choice: no stored
\* index raises.
ChoiceUnpackClamped(st, f, buf) ==
    LET choice_index == GetAttr(st, buf, Prefix(f.name, "cho"))
    IN IF choice_index < Len(f.choices)
       THEN Unpacked(StrV(f.choices[choice_index + 1]))
       ELSE Unpacked(StrV(f.choices[Len(f.choices)]))

\* ChoiceField.unpack
ChoiceUnpack(st, f, buf) ==
    LET choice_index == GetAttr(st, buf, Prefix(f.name, "cho"))
    IN IF choice_index < Len(f.choices)
       THEN Unpacked(StrV(f.choices[choice_index + 1]))
       ELSE UnpackRaised("IndexError")

\* DateField.unpack
DateUnpack(st, f, buf) ==
    LET year == GetAttr(st, buf, Prefix(f.name, "year"))
        month == GetAttr(st, buf, Prefix(f.name, "month"))
        day == GetAttr(st, buf, Prefix(f.name, "day"))
    IN IF ValidDate(EpochYear + year, month, day)
       THEN Unpacked(DateV(EpochYear + year, month, day))
       ELSE UnpackRaised("ValueError")

\* MultipleChoiceField.unpack
MultipleChoiceUnpack(st, f, buf) ==
    Unpacked(SetV({f.choices[i] : i \in {j \in 1..Len(f.choices) :
                                           GetAttr(st, buf, f.choice_mapping[j]) # 0}}))

UnpackLeaf(st, f, buf) ==
    CASE f.kind = "NumberField" -> NumberUnpack(st, f, buf)
      [] f.kind = "BooleanField" -> BooleanUnpack(st, f, buf)
      [] f.kind = "HexField" -> HexUnpack(st, f, buf)
      [] f.kind = "ChoiceField" -> ChoiceUnpack(st, f, buf)
      [] f.kind = "DateField" -> DateUnpack(st, f, buf)
      [] f.kind = "MultipleChoiceField" -> MultipleChoiceUnpack(st, f, buf)

\* The loop of ListField.unpack over self.fields[:size], from element i.
RECURSIVE ListUnpackFrom(_, _, _, _, _, _)
ListUnpackFrom(st, f, buf, size, i, acc) ==
    IF i > size \/ i > Len(f.fields) THEN Unpacked(ListV(acc))
    ELSE LET r == UnpackLeaf(st, f.fields[i], buf)
         IN IF r.ok THEN ListUnpackFrom(st, f, buf, size, i + 1, Append(acc, r.value))
            ELSE r

\* ListField.unpack
ListUnpack(st, f, buf) ==
    ListUnpackFrom(st, f, buf, GetAttr(st, buf, Prefix(f.name, "size")), 1, <<>>)

\* field.unpack(sub_fields)
Unpack(st, f, buf) ==
    IF f.kind = "ListField" THEN ListUnpack(st, f, buf) ELSE UnpackLeaf(st, f, buf)

(***************************************************************************)
(* Stingy.encode and Stingy.decode on one engine instance: the union's     *)
(* bytes `buf` and the dictionary `cache` are the instance's state.        *)
(***************************************************************************)
\* data.get(name): the value, or None when the key is absent.
DataGet(data, name) == IF name \in DOMAIN data THEN data[name] ELSE NoneV

\* The key of the cache: field.name + str(field_value).
CacheKey(f, value) == f.name \o Str(value)

\* setattr(subfields, key, value) for every item of a field's dictionary.
RECURSIVE SetAll(_, _, _, _)
SetAll(st, buf, dict, i) ==
    IF i > Len(dict) THEN buf
    ELSE SetAll(st, SetAttr(st, buf, dict[i][1], dict[i][2]), dict, i + 1)

\* "reset all the fields": the statement assigns a new attribute as_bytes
\* of the union object; the union's member is as_byte, so the bytes stay.
ResetFields(buf) == buf

\* The loop of Stingy.encode over self.fields, from field i.  An exception
\* of pack leaves the bytes and the cache as the earlier fields made them.
RECURSIVE EncodeFrom(_, _, _, _, _, _)
EncodeFrom(st, fs, i, buf, cache, data) ==
    IF i > Len(fs) THEN [ok |-> TRUE, err |-> "", buf |-> buf, cache |-> cache]
    ELSE LET field == fs[i]
             field_value == DataGet(data, field.name)
             key == CacheKey(field, field_value)
         IN IF key \in DOMAIN cache
            THEN EncodeFrom(st, fs, i + 1, SetAll(st, buf, cache[key], 1), cache, data)
            ELSE LET r == Pack(field, field_value)
                 IN IF r.ok
                    THEN EncodeFrom(st, fs, i + 1, SetAll(st, buf, r.dict, 1),
                                    cache @@ (key :> r.dict), data)
                    ELSE [ok |-> FALSE, err |-> r.err, buf |-> buf, cache |-> cache]

\* Stingy.encode: the result, with the bytes returned when no exception.
Encode(st, fs, buf, cache, data) == EncodeFrom(st, fs, 1, ResetFields(buf), cache, data)

\* The loop of Stingy.decode's dict comprehension, from field i.
RECURSIVE UnpackFrom(_, _, _, _, _)
UnpackFrom(st, fs, buf, i, acc) ==
    IF i > Len(fs) THEN [ok |-> TRUE, err |-> "", record |-> acc]
    ELSE LET r == Unpack(st, fs[i], buf)
         IN IF r.ok THEN UnpackFrom(st, fs, buf, i + 1, acc @@ (fs[i].name :> r.value))
            ELSE [ok |-> FALSE, err |-> r.err, record |-> <<>>]

\* cbytearray(*byte_data): too many initialisers raise IndexError, and
\* fewer leave the remaining bytes zero.
CByteArray(n, byte_data) ==
    IF Len(byte_data) > n THEN [ok |-> FALSE, bytes |-> <<>>]
    ELSE [ok |-> TRUE,
          bytes |-> [j \in 1..n |-> IF j <= Len(byte_data) THEN byte_data[j] ELSE 0]]

\* Stingy.decode: [ok, err, record, buf], buf being the union's bytes after.
Decode(st, fs, buf, byte_string) ==
    LET arr == CByteArray(NumBytes(st), byte_string)
    IN IF ~arr.ok
       THEN [ok |-> FALSE, err |-> "IndexError", record |-> <<>>, buf |-> buf]
       ELSE LET r == UnpackFrom(st, fs, arr.bytes, 1, <<>>)
            IN [ok |-> r.ok, err |-> r.err, record |-> r.record, buf |-> arr.bytes]

(***************************************************************************)
(* The schemas and the inputs of the calls.  Each attribute of a schema    *)
(* class is [name, class, kw] with the values a record may give it, some   *)
(* of them outside the field's domain.                                     *)
(***************************************************************************)
P == <<"p">>
Q == <<"q">>
R == <<"r">>
S == <<"s">>

Schemas == <<
    \* 1: an integer of 3 bits and a choice of 3
    <<[name |-> "n", class |-> "NumberField", kw |-> [max_value |-> 7],
       values |-> {IntV(-1), IntV(1), IntV(7), IntV(8), StrV(<<"1">>)}],
      [name |-> "c", class |-> "ChoiceField", kw |-> [choices |-> <<P, Q, R>>],
       values |-> {StrV(R), StrV(S)}]>>,
    \* 2: a multiple choice of 2 and a choice of 4
    <<[name |-> "m", class |-> "MultipleChoiceField", kw |-> [choices |-> <<P, Q>>],
       values |-> {SetV({}), SetV({P}), SetV({P, Q}), SetV({R})}],
      [name |-> "k", class |-> "ChoiceField", kw |-> [choices |-> <<P, Q, R, S>>],
       values |-> {StrV(S)}]>>,
    \* 3: a date of 2010..2012 and a boolean
    <<[name |-> "d", class |-> "DateField", kw |-> [min_year |-> 2010, max_year |-> 2012],
       values |-> {DateV(2010, 1, 31), DateV(2012, 2, 29), DateV(2011, 6, 15)}],
      [name |-> "w", class |-> "BooleanField", kw |-> [none |-> 0],
       values |-> {BoolV(TRUE), StrV(<<"T", "r", "u", "e">>)}]>>,
    \* 4: a date of 2000..2003 and a choice of 2
    <<[name |-> "d", class |-> "DateField", kw |-> [min_year |-> 2000, max_year |-> 2003],
       values |-> {DateV(2000, 2, 29), DateV(2003, 12, 31), DateV(2004, 1, 1), NoneV}],
      [name |-> "b", class |-> "ChoiceField", kw |-> [choices |-> <<P, Q>>],
       values |-> {StrV(Q)}]>>,
    \* 5: a list of at most 2 integers of 2 bits and a hex string of 1 byte
    <<[name |-> "l", class |-> "ListField",
       kw |-> [field |-> "NumberField", length |-> 2, kwargs |-> [max_value |-> 3]],
       values |-> {ListV(<<>>), ListV(<<IntV(3), IntV(2)>>),
                   ListV(<<IntV(1), IntV(2), IntV(3)>>), ListV(<<IntV(4)>>)}],
      [name |-> "h", class |-> "HexField", kw |-> [length |-> 2],
       values |-> {StrV(<<"f", "e">>), StrV(<<"F", "e">>), StrV(<<"f">>)}]>>,
    \* 6: two integers whose names and values give one cache key
    <<[name |-> "a", class |-> "NumberField", kw |-> [max_value |-> 15],
       values |-> {IntV(1), IntV(12)}],
      [name |-> "a1", class |-> "NumberField", kw |-> [max_value |-> 3],
       values |-> {IntV(1), IntV(2)}]>>,
    \* 7: a list of at most 3 booleans, a choice of 1 and a choice of 5
    <<[name |-> "f", class |-> "ListField",
       kw |-> [field |-> "BooleanField", length |-> 3, kwargs |-> [none |-> 0]],
       values |-> {ListV(<<BoolV(TRUE)>>), ListV(<<BoolV(TRUE), BoolV(FALSE), BoolV(TRUE)>>),
                   ListV(<<BoolV(TRUE), BoolV(TRUE), BoolV(TRUE), BoolV(TRUE)>>)}],
      [name |-> "u", class |-> "ChoiceField", kw |-> [choices |-> <<P>>],
       values |-> {StrV(P)}],
      [name |-> "v", class |-> "ChoiceField", kw |-> [choices |-> <<P, Q, R, S, <<"t">>>>],
       values |-> {StrV(<<"t">>)}]>>,
    \* 8: two lists with a boolean declared between them
    <<[name |-> "g", class |-> "ListField",
       kw |-> [field |-> "BooleanField", length |-> 2, kwargs |-> [none |-> 0]],
       values |-> {ListV(<<>>), ListV(<<BoolV(TRUE), BoolV(FALSE)>>)}],
      [name |-> "x", class |-> "BooleanField", kw |-> [none |-> 0],
       values |-> {BoolV(TRUE)}],
      [name |-> "e", class |-> "ListField",
       kw |-> [field |-> "NumberField", length |-> 1, kwargs |-> [max_value |-> 1]],
       values |-> {ListV(<<IntV(1)>>)}]>>
>>

\* The records a call of encode may be given for the schema.
Records(attrs) ==
    LET names == {attrs[i].name : i \in 1..Len(attrs)}
        all == UNION {attrs[i].values : i \in 1..Len(attrs)}
    IN {d \in [names -> all] : \A i \in 1..Len(attrs) : d[attrs[i].name] \in attrs[i].values}

\* The byte strings a call of decode may be given: a first byte, then one
\* filling byte repeated, of the structure's length and one byte off it.
ByteVals == {0, 11, 24, 192, 255}
FillVals == {0, 255}
ByteStrings(n) ==
    {[j \in 1..len |-> IF j = 1 THEN b ELSE fill] :
        b \in ByteVals, fill \in FillVals, len \in {n - 1, n, n + 1}}

\* The iteration orders of a dict of n items.
IterOrders(n) == {p \in [1..n -> 1..n] : \A i, j \in 1..n : p[i] = p[j] => i = j}

\* sid: the schema class; fields: its sorted fields (klass.fields);
\* struct: the structure of the engine's union; buf: the union's bytes;
\* cache: self.cache; calls: the calls made; last: the last call and outcome.
VARIABLES sid, fields, struct, buf, cache, calls, last

vars == <<sid, fields, struct, buf, cache, calls, last>>

NoCall ==
    [op |-> "none", data |-> <<>>, byte_string |-> <<>>, ok |-> TRUE, err |-> "",
     bytes |-> <<>>, record |-> <<>>]

\* The schema class is created (StingyMeta.__new__) and one engine
\* constructed (Stingy.__init__: a zeroed union, an empty cache).
Init ==
    /\ sid \in 1..Len(Schemas)
    /\ \E iter \in IterOrders(Len(Schemas[sid])) : fields = MetaNew(Schemas[sid], iter)
    /\ struct = StingyStructure(fields)
    /\ buf = ZeroBytes(NumBytes(struct))
    /\ cache = <<>>
    /\ calls = 0
    /\ last = NoCall

\* A call encoder.encode(data)
EncodeCall(data) ==
    /\ calls < MaxCalls
    /\ LET r == Encode(struct, fields, buf, cache, data)
       IN /\ buf' = r.buf
          /\ cache' = r.cache
          /\ last' = [op |-> "encode", data |-> data, byte_string |-> <<>>,
                      ok |-> r.ok, err |-> r.err,
                      bytes |-> IF r.ok THEN r.buf ELSE <<>>, record |-> <<>>]
    /\ calls' = calls + 1
    /\ UNCHANGED <<sid, fields, struct>>

\* A call encoder.decode(byte_string)
DecodeCall(byte_string) ==
    /\ calls < MaxCalls
    /\ LET r == Decode(struct, fields, buf, byte_string)
       IN /\ buf' = r.buf
          /\ last' = [op |-> "decode", data |-> <<>>, byte_string |-> byte_string,
                      ok |-> r.ok, err |-> r.err, bytes |-> <<>>, record |-> r.record]
    /\ calls' = calls + 1
    /\ UNCHANGED <<sid, fields, struct, cache>>

\* The caller decodes what the last encode returned, or a string of its own.
Next ==
    \/ \E data \in Records(Schemas[sid]) : EncodeCall(data)
    \/ \E bs \in ByteStrings(NumBytes(struct)) : DecodeCall(bs)
    \/ /\ last.op = "encode" /\ last.ok
       /\ DecodeCall(last.bytes)

Spec == Init /\ [][Next]_vars

(***************************************************************************)
(* What the claims speak of: a field's valid domain, the bits a schema     *)
(* declares, and encode with every field packed afresh.                    *)
(***************************************************************************)
Attrs == Schemas[sid]
Names == {Attrs[i].name : i \in 1..Len(Attrs)}
Range(seq) == {seq[i] : i \in 1..Len(seq)}

\* The valid domain of a field of class `class` with keyword arguments kw.
InDomainLeaf(class, kw, v) ==
    CASE class = "NumberField" ->
           v.t = "int" /\ 0 <= v.n /\ BitLength(v.n) <= BitLength(kw.max_value)
      [] class = "BooleanField" -> v.t = "bool"
      [] class = "HexField" ->
           v.t = "str" /\ Len(v.cs) = kw.length /\ Range(v.cs) \subseteq Range(HexChars)
      [] class = "ChoiceField" -> v.t = "str" /\ v.cs \in Range(kw.choices)
      [] class = "MultipleChoiceField" -> v.t = "set" /\ v.e \subseteq Range(kw.choices)
      [] class = "DateField" ->
           v.t = "date" /\ ValidDate(v.y, v.m, v.d)
           /\ kw.min_year <= v.y /\ v.y <= kw.max_year

InDomain(a, v) ==
    IF a.class = "ListField"
    THEN v.t = "list" /\ Len(v.l) <= a.kw.length
         /\ \A i \in 1..Len(v.l) : InDomainLeaf(a.kw.field, a.kw.kwargs, v.l[i])
    ELSE InDomainLeaf(a.class, a.kw, v)

\* Every field of the record has a value of its valid domain.
ValidRecord(data) ==
    /\ DOMAIN data = Names
    /\ \A i \in 1..Len(Attrs) : InDomain(Attrs[i], data[Attrs[i].name])

\* The sum of the bit widths of the structure members the fields declare.
RECURSIVE SumBits(_)
SumBits(sfs) == IF sfs = <<>> THEN 0 ELSE Head(sfs).bits + SumBits(Tail(sfs))
TotalBits == SumBits(ChainStructure(fields))
TotalBytes == (TotalBits + 7) \div 8

\* encode with every field packed by its pack method, no cache consulted.
RECURSIVE EncodeAfreshFrom(_, _, _, _, _)
EncodeAfreshFrom(st, fs, i, b, data) ==
    IF i > Len(fs) THEN [ok |-> TRUE, err |-> "", buf |-> b]
    ELSE LET r == Pack(fs[i], DataGet(data, fs[i].name))
         IN IF r.ok THEN EncodeAfreshFrom(st, fs, i + 1, SetAll(st, b, r.dict, 1), data)
            ELSE [ok |-> FALSE, err |-> r.err, buf |-> b]

\* The last call was encode, made on the engine as constructed.
FirstEncode == calls = 1 /\ last.op = "encode"

\* This step decodes the bytes the engine's first call, an encode of a
\* valid record, returned.
DecodesFirstEncode ==
    /\ FirstEncode /\ last.ok /\ ValidRecord(last.data)
    /\ last'.op = "decode" /\ calls' = 2 /\ last'.byte_string = last.bytes

(***************************************************************************)
(* The claims.                                                             *)
(***************************************************************************)
\* C1: on a freshly constructed engine, encode of a record whose values lie
\* in each field's valid domain succeeds, and decode of the returned bytes
\* yields a record equal to the input.
C1_RoundTrip ==
    [][/\ (FirstEncode' /\ ValidRecord(last'.data)) => last'.ok
       /\ DecodesFirstEncode => (last'.ok /\ last'.record = last.data)]_vars

\* C2: after any earlier calls, encode(record) has the outcome it has on a
\* fresh engine of the schema (the same bytes, or an error in both).
C2_EncodePure ==
    last.op = "encode" =>
        LET r == Encode(struct, fields, ZeroBytes(NumBytes(struct)), <<>>, last.data)
        IN last.ok = r.ok /\ (r.ok => last.bytes = r.buf)

\* C3: decode of a byte string whose length is not the record's byte count
\* fails.
C3_DecodeLengthGuard ==
    (last.op = "decode" /\ Len(last.byte_string) # NumBytes(struct)) => ~last.ok

\* C4: the bytes encode returns have the length ceil(total_bits / 8), total_bits
\* being the sum of the declared fields' bit widths.
C4_FixedSize ==
    (last.op = "encode" /\ last.ok) => Len(last.bytes) = TotalBytes

\* C5: encode accepts the value v of an integer field of n bits if and only
\* if 0 <= v and bit_length(v) <= n.
C5_IntegerDomain ==
    last.op = "encode" =>
        /\ last.ok =>
             \A i \in 1..Len(Attrs) :
                Attrs[i].class = "NumberField" =>
                   InDomain(Attrs[i], DataGet(last.data, Attrs[i].name))
        /\ ValidRecord(last.data) => last.ok

\* C6: encode accepts the lists of length 0..L of a list field of max_length L
\* and rejects a longer list.
C6_ListBoundary ==
    last.op = "encode" =>
        /\ last.ok =>
             \A i \in 1..Len(Attrs) :
                Attrs[i].class = "ListField" =>
                   LET v == DataGet(last.data, Attrs[i].name)
                   IN v.t = "list" => Len(v.l) <= Attrs[i].kw.length
        /\ ValidRecord(last.data) => last.ok

\* The record has one value per declared field, each of its field's type.
StructurallyValid(record) ==
    /\ DOMAIN record = Names
    /\ \A i \in 1..Len(Attrs) :
          record[Attrs[i].name].t =
             CASE Attrs[i].class = "NumberField" -> "int"
               [] Attrs[i].class = "BooleanField" -> "bool"
               [] Attrs[i].class \in {"HexField", "ChoiceField"} -> "str"
               [] Attrs[i].class = "MultipleChoiceField" -> "set"
               [] Attrs[i].class = "DateField" -> "date"
               [] Attrs[i].class = "ListField" -> "list"

\* The last call was decode of a byte string of exactly the record's length.
DecodedExact == last.op = "decode" /\ Len(last.byte_string) = NumBytes(struct)

\* C7 (as claimed): decode of any byte string of exactly total_bytes bytes
\* succeeds and returns a structurally valid record.
C7_DecodeTotal ==
    DecodedExact => (last.ok /\ StructurallyValid(last.record))

\* The bits of the byte string hold, for the field, a choice index below
\* len(choices) and a calendar date.
HoldsValue(f, bytes) ==
    CASE f.kind = "ChoiceField" ->
           GetAttr(struct, bytes, Prefix(f.name, "cho")) < Len(f.choices)
      [] f.kind = "DateField" ->
           ValidDate(EpochYear + GetAttr(struct, bytes, Prefix(f.name, "year")),
                     GetAttr(struct, bytes, Prefix(f.name, "month")),
                     GetAttr(struct, bytes, Prefix(f.name, "day")))
      [] OTHER -> TRUE
Decodable(bytes) ==
    \A i \in 1..Len(fields) :
       IF fields[i].kind = "ListField"
       THEN \A j \in 1..Len(fields[i].fields) :
               j <= GetAttr(struct, bytes, Prefix(fields[i].name, "size"))
               => HoldsValue(fields[i].fields[j], bytes)
       ELSE HoldsValue(fields[i], bytes)

\* C7 (amended): decode of a byte string of exactly the structure's length
\* returns a structurally valid record exactly when every choice index in
\* it is below len(choices) and every date in it is a calendar date, and
\* fails with an error otherwise.
C7_DecodeTotalWhenDecodable ==
    DecodedExact =>
        /\ last.ok <=> Decodable(last.byte_string)
        /\ last.ok => StructurallyValid(last.record)

\* A byte string no encode returned is decoded: the choice and the date it
\* holds are valid, its other bits arbitrary.
C7_Witness ==
    /\ DecodedExact /\ last.ok /\ last.byte_string[1] # 0
    /\ \E i \in 1..Len(fields) : fields[i].kind \in {"ChoiceField", "DateField"}

\* C8: the outcome of each encode call is the outcome of the same call with
\* every field packed afresh, no cache consulted.
C8_CacheTransparent ==
    [][(last'.op = "encode" /\ calls' = calls + 1) =>
          LET r == EncodeAfreshFrom(struct, fields, 1, buf, last'.data)
          IN last'.ok = r.ok /\ (r.ok => last'.bytes = r.buf)]_vars

\* C9: a choice field of k choices occupies max(1, bit_length(k - 1)) bits.
C9_ChoiceWidth ==
    \A i \in 1..Len(fields) :
       fields[i].kind = "ChoiceField" =>
          struct.slots[Prefix(fields[i].name, "cho")].bits =
             (IF BitLength(Len(fields[i].choices) - 1) < 1 THEN 1
              ELSE BitLength(Len(fields[i].choices) - 1))

\* C10: a date field of min_year..max_year takes bit_length(max_year -
\* min_year) + 4 + 5 bits, and a calendar date of a year in that range is
\* encoded without error and decoded to the same date.
C10_DateRoundTrip ==
    [][\A i \in 1..Len(Attrs) :
          Attrs[i].class = "DateField" =>
             /\ SumBits(fields[i].structure_fields) =
                   BitLength(Attrs[i].kw.max_year - Attrs[i].kw.min_year) + 4 + 5
             /\ (FirstEncode' /\ ValidRecord(last'.data)) => last'.ok
             /\ DecodesFirstEncode =>
                   (last'.ok /\ last'.record[Attrs[i].name] = last.data[Attrs[i].name])]_vars

(***************************************************************************)
(* The order of the fields.                                                *)
(***************************************************************************)
\* The fields constructed for the class, each by its place: <<i>> the i-th
\* field of klass.fields, <<i, j>> the j-th element field of a list field.
Constructed ==
    {<<i>> : i \in 1..Len(fields)}
    \cup UNION {{<<i, j>> : j \in 1..Len(fields[i].fields)} :
                  i \in {k \in 1..Len(fields) : fields[k].kind = "ListField"}}

OrderOf(path) ==
    IF Len(path) = 1 THEN fields[path[1]].order
    ELSE fields[path[1]].fields[path[2]].order

\* The dict's iteration order that declaration order would be.
DeclarationOrder == [i \in 1..Len(Attrs) |-> i]

====
